---- MODULE Spec2Model ----
(***************************************************************************)
(* A model of SmartWebScraper (src/smart_web_scraper.py): the crawl loop   *)
(* of scrape(), the fetch strategy of get_page_content(), the lazy         *)
(* Selenium driver, the robots.txt gate and link extraction.               *)
(*                                                                         *)
(* A URL string is a record [kind, scheme, host, path]:                    *)
(*   kind "abs"   scheme://host/path        kind "proto"  //host/path      *)
(*   kind "root"  /path                     kind "rel"    path             *)
(*   kind "frag"  #...                      kind "pseudo" mailto:, tel:,   *)
(*                                                        javascript:      *)
(* path is the sequence of the path's segments; a fragment joined to a URL *)
(* is kept as the trailing segments "#", name.  A document (markup) is     *)
(* named by a string; its anchors, its visible text and its framework      *)
(* markers are given by tables.                                            *)
(***************************************************************************)
EXTENDS Integers, Sequences, FiniteSets, TLC

\* ---------------------------------------------------------------- bounds
\* the largest page budget (max_pages) a run is started with
MaxBudget == 2

\* ------------------------------------------------------------- constants
\* max_pages=None
Unlimited == -1
\* response.status_code == 200
StatusOk == 200
\* a server-reported error status
StatusNotFound == 404

None == "<None>"

\* ------------------------------------------------------------------ URLs
Url(k, s, h, p) == [kind |-> k, scheme |-> s, host |-> h, path |-> p]

SeedHost == "s"
OtherHost == "o"

\* values of the base_url argument
BaseUrls == { Url("abs", "http", SeedHost, <<>>),
              Url("abs", "https", SeedHost, <<"d", "i">>) }

\* path segments whose text begins with the letters 'http'
HttpNames == {"httpdocs"}

\* href attribute values found in documents
HrefX        == Url("rel", "", "", <<"x">>)
HrefDP       == Url("root", "", "", <<"d", "p">>)
HrefHome     == Url("abs", "http", SeedHost, <<>>)
HrefOther    == Url("abs", "http", OtherHost, <<"x">>)
HrefProtoO   == Url("proto", "", OtherHost, <<"x">>)
HrefProtoS   == Url("proto", "", SeedHost, <<"x">>)
HrefHttpdocs == Url("rel", "", "", <<"httpdocs">>)
HrefFtp      == Url("abs", "ftp", SeedHost, <<"x">>)
HrefFrag     == Url("frag", "", "", <<"top">>)
HrefMail     == Url("pseudo", "mailto", "", <<"a">>)

\* str.startswith('http')
StartsWithHttp(u) ==
    \/ u.kind = "abs" /\ u.scheme \in {"http", "https"}
    \/ u.kind = "rel" /\ u.path # <<>> /\ u.path[1] \in HttpNames

\* urllib.parse.urlparse(url).netloc
Netloc(u) == IF u.kind \in {"abs", "proto"} THEN u.host ELSE ""

\* the directory of a path: everything up to the last '/'
DirOf(p) == IF p = <<>> THEN <<>> ELSE SubSeq(p, 1, Len(p) - 1)

\* urllib.parse.urljoin(base, ref) for an absolute base
UrlJoin(base, ref) ==
    CASE ref.kind = "abs"   -> ref
      [] ref.kind = "proto" -> Url("abs", base.scheme, ref.host, ref.path)
      [] ref.kind = "root"  -> Url("abs", base.scheme, base.host, ref.path)
      [] ref.kind = "rel"   -> Url("abs", base.scheme, base.host, DirOf(base.path) \o ref.path)
      [] ref.kind = "frag"  -> Url("abs", base.scheme, base.host, base.path \o <<"#">> \o ref.path)
      [] OTHER              -> ref

\* ------------------------------------------------------------- documents
EmptyDoc == ""
\* bodies of static 200 responses
StaticDocs == {EmptyDoc, "plain.html", "app.html", "shell.html"}
\* driver.page_source after navigation: a browser always serializes a document
RenderedDocs == {"dom.html"}
\* driver.get(url) raising
NavThrows == "<WebDriverException>"

\* soup.find_all('a', href=True), in document order
Anchors(doc) ==
    CASE doc = "plain.html" -> <<HrefDP, HrefX, HrefOther, HrefFrag, HrefX, HrefMail>>
      [] doc = "app.html"   -> <<HrefHome, HrefProtoO, HrefHttpdocs, HrefProtoS>>
      [] doc = "dom.html"   -> <<HrefDP, HrefFtp, HrefHome>>
      [] OTHER              -> <<>>

\* the visible text left after the non-content elements are removed
VisibleText(doc) ==
    CASE doc = "plain.html" -> "plain text"
      [] doc = "app.html"   -> "loading"
      [] doc = "dom.html"   -> "rendered text"
      [] OTHER              -> ""

\* documents carrying a framework marker or a placeholder shell
JsDocs == {"app.html", "shell.html"}


\* ----------------------------------------------------------- robots.txt
\* RobotFileParser state after read(): the flags read() sets, whether
\* parse() ran (last_checked) and the Disallow path prefixes of the entry
\* that applies to the user agent
Parser(da, aa, lc, dis) == [disallow_all |-> da, allow_all |-> aa, last_checked |-> lc, disallow |-> dis]

\* outcomes of self.robot_parser.read() in __init__: completed tells whether
\* read() returned (TRUE) or raised (FALSE)
RobotsOutcomes ==
    { [completed |-> FALSE, parser |-> Parser(FALSE, FALSE, FALSE, {})],         \* URLError, timeout, decode error
      [completed |-> TRUE,  parser |-> Parser(TRUE,  FALSE, FALSE, {})],         \* HTTP 401/403
      [completed |-> TRUE,  parser |-> Parser(FALSE, TRUE,  FALSE, {})],         \* other HTTP 4xx
      [completed |-> TRUE,  parser |-> Parser(FALSE, FALSE, FALSE, {})],         \* HTTP 5xx: read() returns, nothing set
      [completed |-> TRUE,  parser |-> Parser(FALSE, FALSE, TRUE,  {})],         \* file without Disallow lines
      [completed |-> TRUE,  parser |-> Parser(FALSE, FALSE, TRUE,  {<<"d">>})],  \* Disallow: /d
      [completed |-> TRUE,  parser |-> Parser(FALSE, FALSE, TRUE,  {<<>>})] }    \* Disallow: /

IsPrefix(p, q) == Len(p) <= Len(q) /\ SubSeq(q, 1, Len(p)) = p

\* RobotFileParser.can_fetch(useragent, url)
ParserCanFetch(parser, u) ==
    IF parser.disallow_all THEN FALSE
    ELSE IF parser.allow_all THEN TRUE
    ELSE IF ~parser.last_checked THEN FALSE
    ELSE ~(\E p \in parser.disallow : IsPrefix(p, u.path))

\* ------------------------------------------------------ pure operations
\* SmartWebScraper.can_fetch
can_fetch(respect, parser, u) ==
    IF ~respect THEN TRUE ELSE ParserCanFetch(parser, u)

\* mutant: every resolved link passes the domain test
is_same_domain_Any(base, u) == TRUE

\* SmartWebScraper.is_same_domain
is_same_domain(base, u) == Netloc(base) = Netloc(u)

\* mutant: the reference is appended to base_url as text
normalize_url_Concat(base, u) == Url("abs", base.scheme, base.host, base.path \o u.path)

\* SmartWebScraper.normalize_url
normalize_url(base, u) ==
    IF StartsWithHttp(u) THEN u ELSE UrlJoin(base, u)

\* SmartWebScraper.detect_javascript_content
detect_javascript_content(doc) == doc \in JsDocs

\* Python truthiness of html_content: None and '' are false
Truthy(html) == html # None /\ html # EmptyDoc

\* SmartWebScraper.extract_text
extract_text(html) == IF ~Truthy(html) THEN "" ELSE VisibleText(html)

\* the href test of extract_links
SkippedHref(h) == h.kind \in {"frag", "pseudo"}

RECURSIVE LinksOf(_, _)
LinksOf(base, hrefs) ==
    IF hrefs = <<>> THEN <<>>
    ELSE LET full_url == normalize_url(base, Head(hrefs))
             rest == LinksOf(base, Tail(hrefs))
         IN IF SkippedHref(Head(hrefs)) THEN rest
            ELSE IF is_same_domain(base, full_url) THEN <<full_url>> \o rest
            ELSE rest

\* SmartWebScraper.extract_links
extract_links(base, html) ==
    IF ~Truthy(html) THEN <<>> ELSE LinksOf(base, Anchors(html))

Range(s) == {s[i] : i \in 1..Len(s)}

\* mutant: the pending queue is not consulted before appending
ShouldEnqueue_NoPendingTest(link, visited, q) == link \notin visited

\* the test guarding self.queue.append(link)
ShouldEnqueue(link, visited, q) == link \notin visited /\ link \notin Range(q)

\* the loop over links in scrape
RECURSIVE Enqueue(_, _, _)
Enqueue(q, visited, links) ==
    IF links = <<>> THEN q
    ELSE LET link == Head(links)
         IN IF ShouldEnqueue(link, visited, q)
            THEN Enqueue(Append(q, link), visited, Tail(links))
            ELSE Enqueue(q, visited, Tail(links))

\* ------------------------------------------------------ fetch strategy
\* HTTP responses of requests.get(url): a transport error or a status and body.
\* requests raises InvalidSchema for a URL that is not http(s).
TransportError == [kind |-> "error", status |-> 0, text |-> EmptyDoc]
Responses(u) ==
    IF u.scheme \notin {"http", "https"} THEN {TransportError}
    ELSE {TransportError, [kind |-> "status", status |-> StatusNotFound, text |-> "plain.html"]}
         \cup {[kind |-> "status", status |-> StatusOk, text |-> d] : d \in StaticDocs}

\* SmartWebScraper.initialize_selenium: installed tells whether the selenium
\* package imports, chromeOk whether webdriver.Chrome(options) succeeds
initialize_selenium(drv, installed, chromeOk) ==
    IF drv # None THEN [ok |-> TRUE, raised |-> FALSE, driver |-> drv, created |-> 0]
    ELSE IF ~installed THEN [ok |-> FALSE, raised |-> TRUE, driver |-> drv, created |-> 0]
    ELSE IF chromeOk THEN [ok |-> TRUE, raised |-> FALSE, driver |-> "Chrome", created |-> 1]
    ELSE [ok |-> FALSE, raised |-> FALSE, driver |-> drv, created |-> 0]

\* the result of get_page_content: the value returned (or raised = TRUE when
\* an exception leaves the method), the fields it assigned, and how many
\* times it called initialize_selenium / driver.get and with what outcome
Outcome(ret, raised, drv, tried, inits, fails, created, navs) ==
    [ret |-> ret, raised |-> raised, driver |-> drv, tried |-> tried,
     inits |-> inits, fails |-> fails, created |-> created, navs |-> navs]

\* get_page_content, the handler of a request exception; inits0 and fails0
\* count the calls of initialize_selenium made before the handler is entered
ExceptBranch(drv, tried, installed, chromeOk, nav, inits0, fails0) ==
    IF ~tried
    THEN LET i == initialize_selenium(drv, installed, chromeOk)
         IN IF i.raised THEN Outcome(None, TRUE, i.driver, tried, inits0 + 1, fails0 + 1, 0, 0)
            ELSE IF i.ok
                 THEN Outcome(IF nav = NavThrows THEN None ELSE nav, FALSE,
                              i.driver, TRUE, inits0 + 1, fails0, i.created, 1)
                 ELSE Outcome(None, FALSE, i.driver, tried, inits0 + 1, fails0 + 1, 0, 0)
    ELSE Outcome(None, FALSE, drv, tried, inits0, fails0, 0, 0)

\* mutant: a status other than 200 is handled like a transport error
StatusBranch_Fallback(drv, tried, installed, chromeOk, nav) ==
    ExceptBranch(drv, tried, installed, chromeOk, nav, 0, 0)

\* get_page_content, the else branch of status_code == 200
StatusBranch(drv, tried, installed, chromeOk, nav) ==
    Outcome(None, FALSE, drv, tried, 0, 0, 0, 0)

\* SmartWebScraper.get_page_content
get_page_content(resp, drv, tried, installed, chromeOk, nav) ==
    IF resp.kind = "status"
    THEN IF resp.status = StatusOk
         THEN LET html_content == resp.text
              IN IF detect_javascript_content(html_content)
                 THEN IF ~tried
                      THEN LET i == initialize_selenium(drv, installed, chromeOk)
                           IN IF i.raised
                              THEN ExceptBranch(drv, tried, installed, chromeOk, nav, 1, 1)
                              ELSE IF i.ok
                                   THEN Outcome(IF nav = NavThrows THEN html_content ELSE nav, FALSE,
                                                i.driver, TRUE, 1, 0, i.created, 1)
                                   ELSE Outcome(html_content, FALSE, i.driver, tried, 1, 1, 0, 0)
                      ELSE Outcome(html_content, FALSE, drv, tried, 0, 0, 0, 0)
                 ELSE Outcome(html_content, FALSE, drv, tried, 0, 0, 0, 0)
         ELSE StatusBranch(drv, tried, installed, chromeOk, nav)
    ELSE ExceptBranch(drv, tried, installed, chromeOk, nav, 0, 0)


\* ----------------------------------------------------------------- state
VARIABLES
    base_url, respect_robots, max_pages,      \* arguments of __init__ and scrape
    installed,                                \* environment: the selenium package imports
    robot_parser, robot_parser_completed,
    visited_urls, queue, driver, tried_selenium,
    csv,                                      \* rows of the output file
    page_count, url, html_content,            \* locals of scrape
    pc,                                       \* position in scrape
    exc,                                      \* exception leaving the while loop, or None
    \* history
    fetchLog,                                 \* calls of get_page_content: [url, ret, raised]
    last,                                     \* inputs and outcome of the latest get_page_content
    initAttempts, initFailed,                 \* calls of initialize_selenium; one has failed
    created, quits,                           \* webdriver.Chrome objects made; driver.quit() calls
    skippedRobots,                            \* URLs dequeued and skipped on robots grounds
    extracted,                                \* links returned by extract_links
    exitPath,                                 \* why the while loop was left
    sleeps,                                   \* politeness delays applied (line 256)
    appended                                  \* every URL put on the queue, in order

vars == <<base_url, respect_robots, max_pages, installed, robot_parser, robot_parser_completed,
          visited_urls, queue, driver, tried_selenium, csv, page_count, url, html_content,
          pc, exc, fetchLog, last, initAttempts, initFailed, created, quits, skippedRobots,
          extracted, exitPath, sleeps, appended>>

config == <<base_url, respect_robots, max_pages, installed, robot_parser, robot_parser_completed>>
history == <<fetchLog, last, initAttempts, initFailed, created, quits, skippedRobots, extracted, exitPath,
             sleeps, appended>>

Budgets == {Unlimited} \cup (0..MaxBudget)

Row(u, content) == [url |-> u, content |-> content]
\* writer.writerow(['URL', 'Content'])
HeaderRow == Row(Url("text", "", "", <<"URL">>), "Content")

NoOutcome == Outcome(None, FALSE, None, FALSE, 0, 0, 0, 0)
NoCall == [resp |-> TransportError, nav |-> NavThrows, driver |-> None, tried |-> FALSE, out |-> NoOutcome]

\* the state after SmartWebScraper(base_url, respect_robots=...) was constructed
\* and scrape(max_pages) was entered
Init ==
    /\ base_url \in BaseUrls
    /\ respect_robots \in BOOLEAN
    /\ max_pages \in Budgets
    /\ installed \in BOOLEAN
    /\ \E r \in RobotsOutcomes :
          /\ robot_parser = r.parser
          /\ robot_parser_completed = r.completed
    /\ visited_urls = {}
    /\ queue = <<base_url>>
    /\ driver = None
    /\ tried_selenium = FALSE
    /\ csv = <<HeaderRow>>
    /\ page_count = 0
    /\ url = base_url
    /\ html_content = None
    /\ pc = "loop"
    /\ exc = None
    /\ fetchLog = <<>>
    /\ last = NoCall
    /\ initAttempts = 0
    /\ initFailed = FALSE
    /\ created = 0
    /\ quits = 0
    /\ skippedRobots = {}
    /\ extracted = {}
    /\ exitPath = None
    /\ sleeps = 0
    /\ appended = <<base_url>>

\* mutant: the budget test admits one page too many
LoopCondition_OffByOne(q, budget, count) ==
    q # <<>> /\ (budget = Unlimited \/ count <= budget)

\* the while condition
LoopCondition(q, budget, count) ==
    q # <<>> /\ (budget = Unlimited \/ count < budget)

\* mutant: the robots test is missing from the skip condition
ShouldSkip_VisitedOnly(u, visited, completed, respect, parser) == u \in visited

\* the test before continue
ShouldSkip(u, visited, completed, respect, parser) ==
    u \in visited \/ (completed /\ ~can_fetch(respect, parser, u))

\* mutant: the newest pending URL is taken (a stack)
PopFront_Last(q) == [item |-> q[Len(q)], rest |-> SubSeq(q, 1, Len(q) - 1)]

\* mutant: the head is read but left on the queue
PopFront_Peek(q) == [item |-> Head(q), rest |-> q]

\* self.queue.pop(0): the item returned and the list left
PopFront(q) == [item |-> Head(q), rest |-> Tail(q)]

\* while ...: url = self.queue.pop(0)
Dequeue ==
    /\ pc = "loop"
    /\ LoopCondition(queue, max_pages, page_count)
    /\ url' = PopFront(queue).item
    /\ queue' = PopFront(queue).rest
    /\ pc' = "check"
    /\ UNCHANGED <<config, visited_urls, driver, tried_selenium, csv, page_count, html_content, exc, history>>

\* the while condition is false
ExitLoop ==
    /\ pc = "loop"
    /\ ~LoopCondition(queue, max_pages, page_count)
    /\ pc' = "finally"
    /\ exitPath' = IF queue = <<>> THEN "exhausted" ELSE "budget"
    /\ UNCHANGED <<config, visited_urls, queue, driver, tried_selenium, csv, page_count, url,
                   html_content, exc, fetchLog, last, initAttempts, initFailed, created, quits,
                   skippedRobots, extracted, sleeps, appended>>

\* if url in self.visited_urls or (...): continue
Skip ==
    /\ pc = "check"
    /\ ShouldSkip(url, visited_urls, robot_parser_completed, respect_robots, robot_parser)
    /\ skippedRobots' = IF url \in visited_urls THEN skippedRobots ELSE skippedRobots \cup {url}
    /\ pc' = "loop"
    /\ UNCHANGED <<config, visited_urls, queue, driver, tried_selenium, csv, page_count, url,
                   html_content, exc, fetchLog, last, initAttempts, initFailed, created, quits,
                   extracted, exitPath, sleeps, appended>>

\* mutant: the URL is not added to the visited set
Visit_Forget(visited, u) == visited

\* self.visited_urls.add(url)
Visit(visited, u) == visited \cup {u}

\* if not skipped: self.visited_urls.add(url)
MarkVisited ==
    /\ pc = "check"
    /\ ~ShouldSkip(url, visited_urls, robot_parser_completed, respect_robots, robot_parser)
    /\ visited_urls' = Visit(visited_urls, url)
    /\ pc' = "sleep"
    /\ UNCHANGED <<config, queue, driver, tried_selenium, csv, page_count, url, html_content, exc, history>>

\* time.sleep(random.uniform(self.delay[0], self.delay[1]))
Sleep ==
    /\ pc = "sleep"
    /\ sleeps' = sleeps + 1
    /\ pc' = "fetch"
    /\ UNCHANGED <<config, visited_urls, queue, driver, tried_selenium, csv, page_count, url,
                   html_content, exc, fetchLog, last, initAttempts, initFailed, created, quits,
                   skippedRobots, extracted, exitPath, appended>>

\* html_content = self.get_page_content(url)
Fetch ==
    /\ pc = "fetch"
    /\ \E resp \in Responses(url), chromeOk \in BOOLEAN, nav \in RenderedDocs \cup {NavThrows} :
          LET out == get_page_content(resp, driver, tried_selenium, installed, chromeOk, nav)
          IN /\ driver' = out.driver
             /\ tried_selenium' = out.tried
             /\ html_content' = out.ret
             /\ exc' = IF out.raised THEN "ImportError" ELSE None
             /\ pc' = IF out.raised THEN "finally" ELSE "process"
             /\ exitPath' = IF out.raised THEN "exception" ELSE exitPath
             /\ fetchLog' = Append(fetchLog, [url |-> url, ret |-> out.ret, raised |-> out.raised])
             /\ last' = [resp |-> resp, nav |-> nav, driver |-> driver, tried |-> tried_selenium, out |-> out]
             /\ initAttempts' = initAttempts + out.inits
             /\ initFailed' = (initFailed \/ out.fails > 0)
             /\ created' = created + out.created
    /\ UNCHANGED <<config, visited_urls, queue, csv, page_count, url, quits, skippedRobots, extracted,
                   sleeps, appended>>

\* mutant: only pages that were saved are counted
CountAfter_OnlySaved(count, html) == IF Truthy(html) THEN count + 1 ELSE count

\* page_count += 1
CountAfter(count, html) == count + 1

\* if html_content: save_to_csv, extract_links, enqueue; page_count += 1
Process ==
    /\ pc = "process"
    /\ IF Truthy(html_content)
       THEN LET text_content == extract_text(html_content)
                links == extract_links(base_url, html_content)
            IN /\ csv' = Append(csv, Row(url, text_content))
               /\ queue' = Enqueue(queue, visited_urls, links)
               /\ extracted' = extracted \cup Range(links)
       ELSE UNCHANGED <<csv, queue, extracted>>
    /\ appended' = appended \o SubSeq(queue', Len(queue) + 1, Len(queue'))
    /\ page_count' = CountAfter(page_count, html_content)
    /\ pc' = "loop"
    /\ UNCHANGED <<config, visited_urls, driver, tried_selenium, url, html_content, exc,
                   fetchLog, last, initAttempts, initFailed, created, quits, skippedRobots, exitPath,
                   sleeps>>

\* open(self.output_file, 'a') or writerow raising in save_to_csv
SaveFails ==
    /\ pc = "process"
    /\ Truthy(html_content)
    /\ exc' = "OSError"
    /\ pc' = "finally"
    /\ exitPath' = "exception"
    /\ UNCHANGED <<config, visited_urls, queue, driver, tried_selenium, csv, page_count, url,
                   html_content, fetchLog, last, initAttempts, initFailed, created, quits,
                   skippedRobots, extracted, sleeps, appended>>

\* mutant: quit is called without testing self.driver
Releases_Always(drv) == TRUE

\* whether the finally block calls self.driver.quit()
Releases(drv) == drv # None

\* finally: if self.driver: self.driver.quit()
Finally ==
    /\ pc = "finally"
    /\ quits' = IF Releases(driver) THEN quits + 1 ELSE quits
    /\ pc' = "done"
    /\ UNCHANGED <<config, visited_urls, queue, driver, tried_selenium, csv, page_count, url,
                   html_content, exc, fetchLog, last, initAttempts, initFailed, created,
                   skippedRobots, extracted, exitPath, sleeps, appended>>

Next == Dequeue \/ ExitLoop \/ Skip \/ MarkVisited \/ Sleep \/ Fetch \/ Process \/ SaveFails \/ Finally

Spec == Init /\ [][Next]_vars

\* scrape() called without a page budget
InitNoBudget == Init /\ max_pages = Unlimited

\* one thread runs scrape(): whenever a step is possible, one is taken
FairSpec == InitNoBudget /\ [][Next]_vars /\ WF_vars(Next)


\* ------------------------------------------------------------ properties
NoDup(s) == \A i, j \in 1..Len(s) : i # j => s[i] # s[j]
FetchedUrls == [i \in 1..Len(fetchLog) |-> fetchLog[i].url]
RowUrls == [i \in 1..(Len(csv) - 1) |-> csv[i + 1].url]
IsOk(resp) == resp.kind = "status" /\ resp.status = StatusOk
IsErrorStatus(resp) == resp.kind = "status" /\ resp.status # StatusOk
\* a step that is the call of get_page_content
FetchStep == pc = "fetch" /\ pc' # "fetch"

\* C1: no URL is passed to get_page_content more than once in a run, and no
\* URL occurs more than once in the pending queue at any point of the run.
C1_Dedup == NoDup(FetchedUrls) /\ NoDup(queue)

\* a page linking back to the visited seed was processed after the seed, and
\* links are still pending
C1_Witness ==
    /\ pc = "loop"
    /\ Len(fetchLog) >= 2
    /\ base_url \in extracted
    /\ base_url \in visited_urls
    /\ Len(queue) >= 2

\* C2: once a call of initialize_selenium has failed, no later call of
\* get_page_content calls it again, and the later call returns the static
\* markup of its 200 response, or None when there is none.
C2_OneShot ==
    [][(initFailed /\ FetchStep) =>
          /\ initAttempts' = initAttempts
          /\ html_content' = (IF IsOk(last'.resp) THEN last'.resp.text ELSE None)]_vars

\* C3: at most one driver is created in a run; it is quit exactly once when
\* the loop has been left (queue empty, budget reached or exception), never
\* before, and nothing is quit when no driver was created.
C3_Lifecycle ==
    /\ created <= 1
    /\ (driver # None) = (created = 1)
    /\ pc = "done" => quits = created
    /\ pc # "done" => quits = 0

\* a run that created the driver and left the loop by an exception
C3_Witness == pc = "done" /\ exitPath = "exception" /\ created = 1 /\ quits = 1

\* C4: when the static fetch returns 200, the classifier flags the markup,
\* the driver exists after the call and navigation does not throw,
\* get_page_content returns the rendered markup, and the row written for the
\* URL is the text of the rendered markup.
C4_Rendered ==
    LET case == /\ fetchLog # <<>>
                /\ IsOk(last.resp)
                /\ detect_javascript_content(last.resp.text)
                /\ driver # None
                /\ last.nav # NavThrows
    IN /\ (pc = "process" /\ case) => html_content = last.nav
       /\ (pc = "loop" /\ case) =>
              csv[Len(csv)] = Row(fetchLog[Len(fetchLog)].url, extract_text(last.nav))

\* C5: when robots.txt could not be read and respect_robots is set,
\* can_fetch returns true for every URL.
C5_FailOpen ==
    (~robot_parser_completed /\ respect_robots) =>
        \A u \in {base_url} \cup Range(queue) \cup extracted :
            can_fetch(respect_robots, robot_parser, u)

\* the Disallow rules of a parsed robots.txt cover the URL's path
PolicyDisallows(parser, u) == \E p \in parser.disallow : IsPrefix(p, u.path)

\* C6: with respect_robots set and a robots.txt that was parsed, no URL the
\* policy disallows is visited, fetched or written; with respect_robots
\* unset can_fetch is true for every URL and no dequeued URL is skipped on
\* robots grounds.
C6_Robots ==
    /\ (respect_robots /\ robot_parser_completed /\ robot_parser.last_checked) =>
          \A u \in visited_urls \cup Range(FetchedUrls) \cup Range(RowUrls) :
              ~PolicyDisallows(robot_parser, u)
    /\ ~respect_robots =>
          /\ skippedRobots = {}
          /\ \A u \in {base_url} \cup Range(queue) \cup extracted \cup visited_urls :
                 can_fetch(respect_robots, robot_parser, u)

\* a disallowed link was dequeued and skipped while other pages were written
C6_Witness ==
    /\ respect_robots /\ robot_parser_completed /\ robot_parser.last_checked
    /\ \E u \in skippedRobots : PolicyDisallows(robot_parser, u)
    /\ Len(csv) >= 3

\* C7: every URL in the queue or the visited set other than the seed was
\* returned by extract_links and is an absolute URL whose netloc is the
\* netloc of base_url.
C7_Domain ==
    \A u \in Range(queue) \cup visited_urls :
        u = base_url \/ (u \in extracted /\ u.kind = "abs" /\ Netloc(u) = Netloc(base_url))

\* pages with absolute, protocol-relative and relative references to both
\* hosts were processed and links of them were visited
C7_Witness ==
    /\ \E i \in 1..Len(fetchLog) : fetchLog[i].ret = "plain.html"
    /\ \E i \in 1..Len(fetchLog) : fetchLog[i].ret = "app.html"
    /\ Cardinality(visited_urls) >= 3
    /\ pc = "loop"

\* C8: get_page_content never raises: a transport error, a failed
\* initialization of the driver and a navigation error all yield a fallback
\* or None, and the loop goes on.
C8_NoAbort ==
    /\ \A i \in 1..Len(fetchLog) : ~fetchLog[i].raised
    /\ exc # "ImportError"

\* C9: a response with a status other than 200 makes get_page_content return
\* None without calling initialize_selenium or driver.get and without
\* changing driver or tried_selenium; no row is written and no link enqueued.
C9_Non200 ==
    [][/\ (FetchStep /\ IsErrorStatus(last'.resp)) =>
             /\ pc' = "process"
             /\ html_content' = None
             /\ initAttempts' = initAttempts
             /\ last'.out.navs = 0
             /\ created' = created
             /\ driver' = driver
             /\ tried_selenium' = tried_selenium
       /\ (pc = "process" /\ IsErrorStatus(last.resp)) =>
             /\ pc' = "loop"
             /\ csv' = csv
             /\ queue' = queue]_vars

\* a 404 was processed while the driver existed and links were pending
C9_Witness ==
    /\ pc = "loop"
    /\ fetchLog # <<>>
    /\ IsErrorStatus(last.resp)
    /\ driver # None
    /\ queue # <<>>

\* the calls of get_page_content that returned a value other than None
RECURSIVE NonNull(_)
NonNull(log) ==
    IF log = <<>> THEN <<>>
    ELSE IF Head(log).ret # None /\ ~Head(log).raised
         THEN <<Head(log).url>> \o NonNull(Tail(log))
         ELSE NonNull(Tail(log))

\* C10: the header is the first row and occurs once; at every loop boundary
\* the page rows are, in order, the URLs whose fetch returned a value other
\* than None (the empty string included), one row each.
C10_Sink ==
    /\ csv[1] = HeaderRow
    /\ \A i \in 2..Len(csv) : csv[i] # HeaderRow
    /\ pc = "loop" => RowUrls = NonNull(fetchLog)

Budgeted == max_pages # Unlimited

\* C11: with max_pages = N at most N calls of get_page_content are made and
\* at most N rows written; no iteration starts once N pages are counted,
\* also with URLs pending; with N = 0 nothing is fetched; without a budget
\* the loop ends only on an empty queue; skipped URLs are not counted.
C11_Budget ==
    /\ Budgeted => (Len(fetchLog) <= max_pages /\ Len(csv) - 1 <= max_pages)
    /\ (Budgeted /\ pc \in {"check", "sleep", "fetch", "process"}) => page_count < max_pages
    /\ exitPath = "budget" => (Budgeted /\ Len(fetchLog) = max_pages /\ queue # <<>>)
    /\ exitPath = "exhausted" => queue = <<>>
    /\ pc = "loop" => page_count = Len(fetchLog)

\* a budget of two pages ended the run with URLs pending, after a URL was
\* dequeued and skipped
C11_Witness ==
    /\ pc = "done"
    /\ exitPath = "budget"
    /\ max_pages = 2
    /\ skippedRobots # {}
    /\ Len(fetchLog) = 2

\* the render step was reached by the latest call of get_page_content
RenderReached(call) ==
    \/ IsOk(call.resp) /\ detect_javascript_content(call.resp.text)
    \/ call.resp.kind = "error"

\* the driver could not be used by the latest call
EngineUnusable(call) ==
    \/ call.out.fails > 0
    \/ call.tried
    \/ call.out.navs > 0 /\ call.nav = NavThrows

\* C12: when the render step is reached and the driver cannot be used,
\* get_page_content returns the static markup of the 200 response, or None
\* after a transport error.
C12_Fallback ==
    (fetchLog # <<>> /\ RenderReached(last) /\ EngineUnusable(last)) =>
        /\ ~last.out.raised
        /\ last.out.ret = (IF IsOk(last.resp) THEN last.resp.text ELSE None)

\* robots.txt could not be retrieved or parsed: read() raised, or it
\* returned without a parsed document and without an access decision
RobotsUnavailable ==
    \/ ~robot_parser_completed
    \/ ~robot_parser.last_checked /\ ~robot_parser.disallow_all /\ ~robot_parser.allow_all

\* C13: when robots.txt could not be retrieved or parsed, no dequeued URL
\* is skipped on robots grounds, whatever respect_robots is.
C13_FailOpenCrawl == RobotsUnavailable => skippedRobots = {}

\* C14: a URL is added to the visited set exactly once, by the step that
\* leads to the politeness delay; the delay is followed at once by the call
\* of get_page_content for the same URL and changes nothing else; every
\* fetched URL is visited and was delayed once; no visited URL is pending.
C14_Order ==
    [][/\ (visited_urls' # visited_urls) =>
             /\ pc = "check" /\ pc' = "sleep"
             /\ url \notin visited_urls
             /\ visited_urls' = visited_urls \cup {url}
             /\ url' = url
       /\ (pc' = "sleep") => visited_urls' # visited_urls
       /\ (pc = "sleep") =>
             /\ pc' = "fetch"
             /\ sleeps' = sleeps + 1
             /\ <<url, visited_urls, queue, csv, fetchLog, page_count>>' =
                   <<url, visited_urls, queue, csv, fetchLog, page_count>>
       /\ (sleeps' # sleeps) => pc = "sleep"
       /\ FetchStep =>
             /\ url \in visited_urls
             /\ sleeps = Len(fetchLog) + 1
             /\ Len(fetchLog') = Len(fetchLog) + 1
             /\ fetchLog'[Len(fetchLog')].url = url
       /\ Range(queue') \cap visited_urls' = {}]_vars

\* the seed's page linked to the seed itself, and a second page was fetched
C14_Witness ==
    /\ pc = "loop"
    /\ Len(fetchLog) >= 2
    /\ sleeps = Len(fetchLog)
    /\ fetchLog[1].url = base_url
    /\ base_url \in Range(extract_links(base_url, fetchLog[1].ret))
    /\ base_url \notin Range(queue)

\* the position of the first occurrence of x in s
FirstIdx(s, x) == CHOOSE i \in 1..Len(s) : s[i] = x /\ \A j \in 1..(i - 1) : s[j] # x

\* the pending URLs are the latest entries of the append log, in its order
QueueIsTail == queue = SubSeq(appended, Len(appended) - Len(queue) + 1, Len(appended))

\* the URLs were fetched in the order of their first append
FetchedInAppendOrder ==
    /\ Range(FetchedUrls) \subseteq Range(appended)
    /\ \A i, j \in 1..Len(fetchLog) :
          i < j => FirstIdx(appended, fetchLog[i].url) < FirstIdx(appended, fetchLog[j].url)

\* C15: the queue is first-in first-out: a dequeue takes the pending URL
\* that was appended earliest; the seed is first; the links of a page are
\* appended in document order; URLs are fetched in the order of their first
\* append.
C15_Fifo ==
    [][/\ QueueIsTail'
       /\ FetchedInAppendOrder'
       /\ appended'[1] = base_url
       /\ (fetchLog' # <<>>) => fetchLog'[1].url = base_url
       /\ (pc = "loop" /\ pc' = "check") =>
             /\ url' = appended[Len(appended) - Len(queue) + 1]
             /\ queue' = SubSeq(appended, Len(appended) - Len(queue) + 2, Len(appended))
       /\ (pc = "process" /\ pc' = "loop") =>
             LET links == extract_links(base_url, html_content)
                 added == SubSeq(appended', Len(appended) + 1, Len(appended'))
             IN /\ Range(added) = {l \in Range(links) : l \notin visited_urls /\ l \notin Range(queue)}
                /\ \A i, j \in 1..Len(added) :
                      i < j => FirstIdx(links, added[i]) < FirstIdx(links, added[j])
                /\ queue' = queue \o added]_vars

\* three pages were fetched and a URL that had been dequeued and skipped
\* was appended a second time
C15_Witness ==
    /\ pc = "loop"
    /\ Len(fetchLog) >= 3
    /\ ~NoDup(appended)

\* a reference resolved against the URL of the page it was found on
ResolveOnPage(page, h) == IF StartsWithHttp(h) THEN h ELSE UrlJoin(page, h)

\* the same-domain links of a page when its references are resolved against
\* the page's own URL
RECURSIVE PageLinks(_, _, _)
PageLinks(base, page, hrefs) ==
    IF hrefs = <<>> THEN <<>>
    ELSE LET full_url == ResolveOnPage(page, Head(hrefs))
             rest == PageLinks(base, page, Tail(hrefs))
         IN IF SkippedHref(Head(hrefs)) THEN rest
            ELSE IF Netloc(full_url) = Netloc(base) THEN <<full_url>> \o rest
            ELSE rest

\* C16: the links extract_links returns for a fetched page are its
\* references resolved against the URL of that page, not against base_url.
C16_PageOrigin ==
    \A i \in 1..Len(fetchLog) :
        Truthy(fetchLog[i].ret) =>
            extract_links(base_url, fetchLog[i].ret)
                = PageLinks(base_url, fetchLog[i].url, Anchors(fetchLog[i].ret))

\* reference strings of every form: absolute http(s), absolute of another
\* scheme, path-relative, root-relative, protocol-relative, fragment,
\* pseudo-scheme and a relative name beginning with 'http'
Refs ==
    BaseUrls \cup {HrefX, HrefDP, HrefHome, HrefOther, HrefProtoO, HrefProtoS, HrefHttpdocs,
                   HrefFtp, HrefFrag, HrefMail,
                   Url("rel", "", "", <<"d", "x">>), Url("rel", "", "", <<"httpdocs", "x">>),
                   Url("abs", "https", OtherHost, <<"d", "p">>), Url("root", "", "", <<>>)}

\* C17: normalize_url is idempotent on every reference string.
C17_Idempotent ==
    \A u \in Refs :
        normalize_url(base_url, normalize_url(base_url, u)) = normalize_url(base_url, u)

\* pages with a relative name beginning with 'http', an ftp URL and
\* protocol-relative references went through extract_links
C17_Witness ==
    /\ \E i \in 1..Len(fetchLog) : fetchLog[i].ret = "app.html"
    /\ \E i \in 1..Len(fetchLog) : fetchLog[i].ret = "dom.html"
    /\ Url("abs", "ftp", SeedHost, <<"x">>) \in extracted
    /\ pc = "loop"

\* C18: a scrape call without a page budget terminates, whatever the
\* fetches return, also when robots-disallowed URLs are appended again
\* after they were dequeued and skipped.
C18_Terminates == <>(pc = "done")

\* a run without budget ended after a skipped URL had been appended again
C18_Witness ==
    /\ pc = "done"
    /\ max_pages = Unlimited
    /\ exitPath = "exhausted"
    /\ \E u \in skippedRobots :
          Cardinality({i \in 1..Len(appended) : appended[i] = u}) >= 2

\* the robots policy that was loaded denies the URL: an access decision for
\* the whole site (401/403) or a Disallow rule of the parsed document
LoadedPolicyDenies(u) ==
    /\ robot_parser_completed
    /\ \/ robot_parser.disallow_all
       \/ robot_parser.last_checked /\ PolicyDisallows(robot_parser, u)

\* C19: when a run without budget ends on an empty queue, the seed and
\* every link extracted from a saved page is visited or denied by the
\* loaded robots policy.
C19_Coverage ==
    (pc = "done" /\ max_pages = Unlimited /\ exitPath = "exhausted") =>
        \A u \in {base_url} \cup extracted : u \in visited_urls \/ LoadedPolicyDenies(u)

\* C20: at every loop boundary, and when the loop was left without an
\* exception, page_count is the number of visited URLs and the number of
\* calls of get_page_content, whatever they returned; skipped URLs are not
\* counted; the rows written never exceed page_count.
C20_Counter ==
    /\ (pc = "loop" \/ (pc \in {"finally", "done"} /\ exc = None)) =>
          /\ page_count = Cardinality(visited_urls)
          /\ page_count = Len(fetchLog)
    /\ Len(csv) - 1 <= page_count
    /\ visited_urls \cap skippedRobots = {}

\* a finished run that counted a fetch returning None and skipped a URL
C20_Witness ==
    /\ pc = "done"
    /\ exc = None
    /\ page_count >= 2
    /\ \E i \in 1..Len(fetchLog) : fetchLog[i].ret = None
    /\ skippedRobots # {}
    /\ Len(csv) - 1 < page_count

====
